---------------------------- MODULE Spec2Model ----------------------------
(***************************************************************************)
(* Client-side behaviour of the Greenwich Madinah Trust website: the hero  *)
(* carousel, the FAQ accordion, the form guard and the email validator     *)
(* (main script), the YouTube video panel with its localStorage cache, the *)
(* prayer-times lookup and the event banner.                               *)
(*                                                                         *)
(* The components are independent (they share no state), so each has its   *)
(* own specification over the one variable tuple: SpecCarousel, SpecMenu,  *)
(* SpecAccordion, SpecForm, SpecEmail, SpecVideo, SpecPrayer, SpecEvents,  *)
(* SpecHijri (the lunar date), SpecLoader (concurrent timetable loads).    *)
(* In a component's specification the variables of the other components    *)
(* stay at their idle values.                                              *)
(***************************************************************************)
EXTENDS Integers, Sequences, FiniteSets, TLC

VARIABLES
    \* ---- hero carousel (initHeroCarousel) ----
    slideCount,        \* slides.length
    dotCount,          \* dots.length
    currentSlide,      \* let currentSlide
    slideActive,       \* 'active' class of each slide
    dotActive,         \* 'active' class of each dot
    autoPlayInterval,  \* let autoPlayInterval (0 = undefined)
    armed,             \* interval timers currently armed in the browser
    timerAge,          \* milliseconds since each armed timer was set or last fired
    hovering,          \* pointer is over the track
    touching,          \* a touch on the track is in progress
    touchStartX,       \* let touchStartX
    lastEvent,         \* history: the last listener that ran
    lastNav,           \* history: the navigation function the last listener called, or "none"
    lastFrom,          \* history: currentSlide before that call
    nextRun,           \* history: consecutive nextSlide calls since load, -1 = broken
    lastIndex,         \* history: the index argument of the last goToSlide call
    sinceNav,          \* history: milliseconds since the last manual navigation, -1 = none yet
    \* ---- mobile menu (initMobileMenu) ----
    menuWired,         \* #mobile-menu-toggle and #main-nav both exist: the listeners are registered
    navLinkCount,      \* number of .nav-link elements inside the nav
    navActive,         \* 'active' class of the nav
    ariaExpanded,      \* aria-expanded of the toggle: "markup" until a listener sets it
    slideBtnBound,     \* the video panel has registered openVideo on the slide's play button
    menuTarget,        \* history: the target of the last click
    menuBefore,        \* history: the 'active' class of the nav before that click
    \* ---- FAQ accordion (initFaqAccordions) ----
    faqCount,          \* faqItems.length
    faqHasQuestion,    \* the item holds a .faq-question element
    faqActive,         \* 'active' class of each item
    faqClicked,        \* history: the item whose question was clicked last, 0 = none
    faqBefore,         \* history: the 'active' classes before that click
    \* ---- form guard (initFormValidation), one form ----
    fieldCount,        \* number of fields of the form
    fieldRequired,     \* the field matches [required]
    fieldIsEmail,      \* the field matches input[type="email"]
    fieldValue,        \* field.value
    fieldError,        \* 'error' class of the field
    submitState,       \* "none", or "submitted" once the submit listener has run on the current values
    defaultPrevented,  \* the last submit event was cancelled
    alertCount,        \* alerts shown by the last submit
    \* ---- email validator (isValidEmail) ----
    emailArg,          \* the argument of the call
    emailResult,       \* "none" before the call, then "true" or "false" as returned
    \* ---- video panel (youtube.js) ----
    clock,             \* Date.now(), in milliseconds
    storage,           \* localStorage item CONFIG.cacheKey
    ytDom,             \* which DOM targets the page holds
    ytPc,              \* where init is: unloaded, spotlight, live, channel, playlist, done, failed
    spotlightCfg,      \* init: const spotlightCfg
    liveStream,        \* init: const liveStream
    cached,            \* init: const cached
    videos,            \* init: let videos
    ytView,            \* what init has written into the page
    ytLog,             \* history of this run: requests issued, cache reads and writes,
                       \* whether the live query gave no live item
    \* ---- prayer times (PrayerTimes module) ----
    prayerFile,        \* the content of data/prayer-times-2025.json
    prayerTimesData,   \* let prayerTimesData
    hijriCalendarData, \* let hijriCalendarData
    prayerPage,        \* which DOM targets the page holds
    prayerOp,          \* the operation called last: getTimesForDate, updateDisplay, renderMonthlyTable
    prayerPc,          \* the call: idle, loading (timetable fetch in flight), hijri (calendar
                       \* fetch in flight), returned
    prayerDate,        \* the date argument: getMonth() and getDate()
    prayerTable,       \* the year and month arguments of renderMonthlyTable
    prayerResult,      \* the value getTimesForDate resolved to
    prayerView,        \* what the module has written into the page
    prayerLog,         \* history: requests of the timetable by the operation, failures
    \* ---- event banner (events.js) ----
    evDom,             \* which DOM targets the page holds
    evPc,              \* loadEvents: loading (fetch in flight), done
    evResponse,        \* history: the response of the fetch of data/events.json
    barView,           \* #event-notification-bar: display, href, text
    spotView,          \* #event-spotlight: display, fields written, alt of the poster
    \* ---- lunar date (PrayerTimes.getHijriDate, record-based) ----
    hijriZone,         \* the browser's time zone: its daylight-saving transition, if any
    hijriCalendar,     \* const calendar: what loadHijriCalendarData resolved to
    hijriNow,          \* new Date(): the calendar day and the time of day, in milliseconds
    hijriDate,         \* the value getHijriDate resolved to, Null before the call
    \* ---- concurrent calls of PrayerTimes.loadPrayerTimesData ----
    loadPc,            \* each caller: idle, fetching, parsing, returned
    loadCache,         \* let prayerTimesData: 0 = null, else the identity of the parsed object
    loadReturned,      \* what each caller received: 0 = null, else the identity of the object
    loadLog            \* history: requests issued, requests failed, objects parsed

carouselVars == <<slideCount, dotCount, currentSlide, slideActive, dotActive,
                  autoPlayInterval, armed, timerAge, hovering, touching, touchStartX,
                  lastEvent, lastNav, lastFrom, nextRun, lastIndex, sinceNav>>

menuVars == <<menuWired, navLinkCount, navActive, ariaExpanded, slideBtnBound,
              menuTarget, menuBefore>>

accordionVars == <<faqCount, faqHasQuestion, faqActive, faqClicked, faqBefore>>

formVars == <<fieldCount, fieldRequired, fieldIsEmail, fieldValue, fieldError,
              submitState, defaultPrevented, alertCount>>

emailVars == <<emailArg, emailResult>>

videoVars == <<clock, storage, ytDom, ytPc, spotlightCfg, liveStream, cached, videos,
               ytView, ytLog>>

prayerVars == <<prayerFile, prayerTimesData, hijriCalendarData, prayerPage, prayerOp, prayerPc,
                prayerDate, prayerTable, prayerResult, prayerView, prayerLog>>

eventVars == <<evDom, evPc, evResponse, barView, spotView>>

hijriVars == <<hijriZone, hijriCalendar, hijriNow, hijriDate>>

loaderVars == <<loadPc, loadCache, loadReturned, loadLog>>

vars == <<carouselVars, menuVars, accordionVars, formVars, emailVars, videoVars, prayerVars,
          eventVars, hijriVars, loaderVars>>

\* the variables of the other components, left alone by a component's actions
exceptCarousel == <<menuVars, accordionVars, formVars, emailVars, videoVars, prayerVars, eventVars, hijriVars,
        loaderVars>>
exceptAccordion == <<carouselVars, menuVars, formVars, emailVars, videoVars, prayerVars, eventVars, hijriVars,
        loaderVars>>
exceptForm == <<carouselVars, menuVars, accordionVars, emailVars, videoVars, prayerVars, eventVars, hijriVars,
        loaderVars>>
exceptVideo == <<carouselVars, menuVars, accordionVars, formVars, emailVars, prayerVars, eventVars, hijriVars,
        loaderVars>>
exceptPrayer == <<carouselVars, menuVars, accordionVars, formVars, emailVars, videoVars, eventVars, hijriVars,
        loaderVars>>
exceptEvents == <<carouselVars, menuVars, accordionVars, formVars, emailVars, videoVars, prayerVars, hijriVars,
        loaderVars>>
exceptMenu == <<carouselVars, accordionVars, formVars, emailVars, videoVars, prayerVars, eventVars, hijriVars,
        loaderVars>>
exceptHijri == <<carouselVars, menuVars, accordionVars, formVars, emailVars, videoVars, prayerVars,
        eventVars, loaderVars>>
exceptLoader == <<carouselVars, menuVars, accordionVars, formVars, emailVars, videoVars, prayerVars,
        eventVars, hijriVars>>
exceptEmail == <<carouselVars, menuVars, accordionVars, formVars, videoVars, prayerVars, eventVars, hijriVars,
        loaderVars>>

-----------------------------------------------------------------------------
(* Bounds of the model *)

MaxSlides == 3
MaxDots == 4
MaxTimerIds == 3
TicksPerDelay == 2
MaxFaqItems == 3
MaxNavLinks == 2
MaxFields == 2
MaxEmailLen == 6
MaxPeriods == 1
MaxReturned == 2
MaxDays == 2

(* consecutive nextSlide calls that are followed: a full cycle and the step after it *)
RunCap == MaxSlides + 1

(* dot counts of the page's markup: no dots, one per slide, more dots than slides *)
DotCounts(n) == {0, n, MaxDots}

(* screenX samples of a touch: differences 0, 50, 51, 101 in both directions *)
ScreenXs == {0, 50, 101}

-----------------------------------------------------------------------------
(* Hero carousel *)

swipeThreshold == 50

autoPlayDelay == 10000

(* the step of the model's clock: the delay is followed in TicksPerDelay steps *)
Quantum == autoPlayDelay \div TicksPerDelay

Least(S) == CHOOSE x \in S : \A y \in S : x <= y

Abs(x) == IF x < 0 THEN -x ELSE x

WrapIndexOffByOne(index, n) ==
    IF index > n THEN 0
    ELSE IF index < 0 THEN n - 1
    ELSE index

WrapIndexNoUpper(index, n) ==
    IF index < 0 THEN n - 1
    ELSE index

\* index after the wrap-around of goToSlide
WrapIndex(index, n) ==
    IF index >= n THEN 0
    ELSE IF index < 0 THEN n - 1
    ELSE index

ActiveFlagsAddOnly(flags, target) ==
    [i \in DOMAIN flags |-> flags[i] \/ i = target]

\* classList.toggle('active', i === currentSlide) over every element of the list
ActiveFlags(flags, target) ==
    [i \in DOMAIN flags |-> i = target]

\* goToSlide(index): the new currentSlide and the active flags of dots and slides
goToSlide(index) ==
    LET target == WrapIndex(index, slideCount)
    IN  /\ currentSlide' = target
        /\ dotActive' = ActiveFlags(dotActive, target)
        /\ slideActive' = ActiveFlags(slideActive, target)
        /\ lastIndex' = index

nextSlide ==
    /\ goToSlide(currentSlide + 1)
    /\ lastNav' = "next"
    /\ lastFrom' = currentSlide
    /\ nextRun' = IF nextRun >= 0 /\ nextRun < RunCap THEN nextRun + 1 ELSE -1

prevSlide ==
    /\ goToSlide(currentSlide - 1)
    /\ lastNav' = "prev"
    /\ lastFrom' = currentSlide
    /\ nextRun' = -1

\* the listener that runs calls no navigation function
noNav ==
    /\ lastNav' = "none"
    /\ lastFrom' = 0
    /\ lastIndex' = 0
    /\ UNCHANGED <<currentSlide, dotActive, slideActive, nextRun, sinceNav>>

\* the listener that runs has navigated on the visitor's request
manualNav == sinceNav' = 0

\* the timers left armed by stopAutoPlay: clearInterval of the handle, if set
StoppedTimers(handle, timers) == IF handle # 0 THEN timers \ {handle} ELSE timers

stopAutoPlay ==
    /\ armed' = StoppedTimers(autoPlayInterval, armed)
    /\ timerAge' = [id \in StoppedTimers(autoPlayInterval, armed) |-> timerAge[id]]
    /\ UNCHANGED autoPlayInterval

\* setInterval returns an id that names no armed timer and differs from the
\* handle held; ids are only compared and cleared, so the least such id
\* stands for the fresh one
FreshIds(handle, timers) == {id \in 1..MaxTimerIds : id \notin timers /\ id # handle}

NewTimer(handle, timers) ==
    CHOOSE id \in FreshIds(handle, timers) : \A o \in FreshIds(handle, timers) : id <= o

RestartedTimersNotSet(handle, timers) ==
    StoppedTimers(handle, timers)

RestartedTimersNoStop(handle, timers) ==
    timers \cup {NewTimer(handle, timers)}

\* the timers armed after startAutoPlay: stopAutoPlay, then setInterval
RestartedTimers(handle, timers) ==
    StoppedTimers(handle, timers) \cup {NewTimer(handle, timers)}

ResumedAges(handle, timers, ages) ==
    [id \in RestartedTimers(handle, timers) |->
        IF id # NewTimer(handle, timers) THEN ages[id]
        ELSE IF handle \in timers THEN ages[handle] ELSE 0]

\* the ages of the timers armed after startAutoPlay: the new interval starts at 0
RestartedAges(handle, timers, ages) ==
    [id \in RestartedTimers(handle, timers) |->
        IF id = NewTimer(handle, timers) THEN 0 ELSE ages[id]]

startAutoPlay ==
    /\ FreshIds(autoPlayInterval, armed) # {}
    /\ armed' = RestartedTimers(autoPlayInterval, armed)
    /\ timerAge' = RestartedAges(autoPlayInterval, armed, timerAge)
    /\ autoPlayInterval' = NewTimer(autoPlayInterval, armed)

NextBtnClick ==
    /\ nextSlide
    /\ manualNav
    /\ startAutoPlay
    /\ lastEvent' = "nextBtn"
    /\ UNCHANGED <<exceptCarousel, slideCount, dotCount, hovering, touching, touchStartX>>

PrevBtnClick ==
    /\ prevSlide
    /\ manualNav
    /\ startAutoPlay
    /\ lastEvent' = "prevBtn"
    /\ UNCHANGED <<exceptCarousel, slideCount, dotCount, hovering, touching, touchStartX>>

DotClick ==
    \E index \in 0..(dotCount - 1) :
        /\ goToSlide(index)
        /\ lastNav' = "goto"
        /\ lastFrom' = currentSlide
        /\ nextRun' = -1
        /\ manualNav
        /\ startAutoPlay
        /\ lastEvent' = "dot"
        /\ UNCHANGED <<exceptCarousel, slideCount, dotCount, hovering, touching, touchStartX>>

MouseEnter ==
    /\ ~hovering
    /\ hovering' = TRUE
    /\ stopAutoPlay
    /\ noNav
    /\ lastEvent' = "mouseenter"
    /\ UNCHANGED <<exceptCarousel, slideCount, dotCount, touching, touchStartX>>

MouseLeave ==
    /\ hovering
    /\ hovering' = FALSE
    /\ startAutoPlay
    /\ noNav
    /\ lastEvent' = "mouseleave"
    /\ UNCHANGED <<exceptCarousel, slideCount, dotCount, touching, touchStartX>>

TouchStart ==
    \E x \in ScreenXs :
        /\ ~touching
        /\ touching' = TRUE
        /\ touchStartX' = x
        /\ stopAutoPlay
        /\ noNav
        /\ lastEvent' = "touchstart"
        /\ UNCHANGED <<exceptCarousel, slideCount, dotCount, hovering>>

\* handleSwipe with touchEndX = x (touchEndX is written and read in the same handler)
handleSwipe(x) ==
    LET diff == touchStartX - x
    IN  IF Abs(diff) > swipeThreshold
        THEN (IF diff > 0 THEN nextSlide ELSE prevSlide) /\ manualNav
        ELSE noNav

TouchEnd ==
    \E x \in ScreenXs :
        /\ touching
        /\ touching' = FALSE
        /\ handleSwipe(x)
        /\ startAutoPlay
        /\ lastEvent' = "touchend"
        /\ UNCHANGED <<exceptCarousel, slideCount, dotCount, hovering, touchStartX>>

\* keydown on the document; inViewport = #hero-carousel exists and its rect
\* overlaps the window (the listener returns early without the element)
KeyDown ==
    \E key \in {"ArrowLeft", "ArrowRight", "Other"}, inViewport \in BOOLEAN :
        /\ IF inViewport /\ key = "ArrowLeft"
           THEN prevSlide /\ manualNav /\ startAutoPlay
           ELSE IF inViewport /\ key = "ArrowRight"
           THEN nextSlide /\ manualNav /\ startAutoPlay
           ELSE noNav /\ UNCHANGED <<autoPlayInterval, armed, timerAge>>
        /\ lastEvent' = "keydown"
        /\ UNCHANGED <<exceptCarousel, slideCount, dotCount, hovering, touching, touchStartX>>

\* an armed interval fires when autoPlayDelay has passed since it was set or
\* last fired: setInterval(nextSlide, autoPlayDelay)
TimerTick ==
    \E id \in armed :
        /\ timerAge[id] = autoPlayDelay
        /\ nextSlide
        /\ timerAge' = [timerAge EXCEPT ![id] = 0]
        /\ lastEvent' = "timer"
        /\ UNCHANGED <<exceptCarousel, slideCount, dotCount, autoPlayInterval, armed, hovering,
                       touching, touchStartX, sinceNav>>

\* time passes, by one step of the clock or up to the moment the next armed
\* interval is due; a due interval fires before more time passes
Elapse ==
    /\ \A id \in armed : timerAge[id] < autoPlayDelay
    /\ LET step == Least({Quantum} \cup {autoPlayDelay - timerAge[id] : id \in armed})
       IN  /\ timerAge' = [id \in armed |-> timerAge[id] + step]
           /\ sinceNav' = IF sinceNav = -1 THEN -1
                          ELSE Least({autoPlayDelay, sinceNav + step})
    /\ UNCHANGED <<exceptCarousel, slideCount, dotCount, currentSlide, slideActive, dotActive,
                   autoPlayInterval, armed, hovering, touching, touchStartX,
                   lastEvent, lastNav, lastFrom, nextRun, lastIndex>>

\* the state when initHeroCarousel returns: index 0, the first timer armed;
\* the active classes are those of the page's markup (first slide marked, or none)
CarouselInit ==
    /\ slideCount \in 1..MaxSlides
    /\ dotCount \in DotCounts(slideCount)
    /\ currentSlide = 0
    /\ \E marked \in BOOLEAN :
          /\ slideActive = [i \in 0..(slideCount - 1) |-> marked /\ i = 0]
          /\ dotActive = [i \in 0..(dotCount - 1) |-> marked /\ i = 0]
    /\ autoPlayInterval = NewTimer(0, {})
    /\ armed = RestartedTimers(0, {})
    /\ timerAge = RestartedAges(0, {}, <<>>)
    /\ hovering = FALSE
    /\ touching = FALSE
    /\ touchStartX = 0
    /\ lastEvent = "load"
    /\ lastNav = "none"
    /\ lastFrom = 0
    /\ nextRun = 0
    /\ lastIndex = 0
    /\ sinceNav = -1

CarouselIdle ==
    /\ slideCount = 1
    /\ dotCount = 0
    /\ currentSlide = 0
    /\ slideActive = [i \in 0..0 |-> FALSE]
    /\ dotActive = [i \in 0..(-1) |-> FALSE]
    /\ autoPlayInterval = 0
    /\ armed = {}
    /\ timerAge = <<>>
    /\ hovering = FALSE
    /\ touching = FALSE
    /\ touchStartX = 0
    /\ lastEvent = "load"
    /\ lastNav = "none"
    /\ lastFrom = 0
    /\ nextRun = 0
    /\ lastIndex = 0
    /\ sinceNav = -1

CarouselNext ==
    \/ NextBtnClick
    \/ PrevBtnClick
    \/ DotClick
    \/ MouseEnter
    \/ MouseLeave
    \/ TouchStart
    \/ TouchEnd
    \/ KeyDown
    \/ TimerTick
    \/ Elapse

-----------------------------------------------------------------------------
(* Mobile menu *)

\* the click targets of the page, by their place in the document: the toggle
\* button (or an element inside it), the k-th .nav-link of the nav (or an
\* element inside it), another element inside the nav, the play button of the
\* carousel's video slide, any other element
NoTarget == [kind |-> "none", link |-> 0]
Target(kind) == [kind |-> kind, link |-> 0]
NavLink(k) == [kind |-> "navLink", link |-> k]

\* nav.contains(e.target)
InNav(target) == target.kind \in {"navLink", "navOther"}

\* toggle.contains(e.target)
InToggle(target) == target.kind = "toggle"

MenuState(active, aria) == [active |-> active, aria |-> aria]

BoolText(b) == IF b THEN "true" ELSE "false"

\* the click listener of the toggle
ToggleListener(m) == MenuState(~m.active, BoolText(~m.active))

\* the click listener of a .nav-link
LinkListener(m) == MenuState(FALSE, "false")

\* the click listener of the document
DocumentListener(m, target) ==
    IF ~InNav(target) /\ ~InToggle(target) THEN MenuState(FALSE, "false") ELSE m

\* the listeners on the target and its ancestors below the document
TargetListeners(m, target) ==
    IF target.kind = "toggle" THEN ToggleListener(m)
    ELSE IF target.kind = "navLink" THEN LinkListener(m)
    ELSE m

\* openVideo on the play button calls e.stopPropagation(): the click does not
\* reach the document
Propagates(target, bound) == ~(target.kind = "playBtn" /\ bound)

\* a click on target: the listeners run in bubbling order
Click(target) ==
    LET m0 == MenuState(navActive, ariaExpanded)
        m1 == IF menuWired THEN TargetListeners(m0, target) ELSE m0
        m2 == IF menuWired /\ Propagates(target, slideBtnBound)
              THEN DocumentListener(m1, target) ELSE m1
    IN  /\ navActive' = m2.active
        /\ ariaExpanded' = m2.aria
        /\ menuBefore' = navActive
        /\ UNCHANGED <<exceptMenu, menuWired, navLinkCount, slideBtnBound>>

ToggleClick ==
    /\ menuTarget' = Target("toggle")
    /\ Click(Target("toggle"))

NavLinkClick ==
    \E k \in 1..navLinkCount :
        /\ menuTarget' = NavLink(k)
        /\ Click(NavLink(k))

NavOtherClick ==
    /\ menuTarget' = Target("navOther")
    /\ Click(Target("navOther"))

OutsideClick ==
    /\ menuTarget' = Target("outside")
    /\ Click(Target("outside"))

PlayBtnClick ==
    /\ menuTarget' = Target("playBtn")
    /\ Click(Target("playBtn"))

\* the state when initMobileMenu returns; the classes are those of the markup
MenuInit ==
    /\ menuWired \in BOOLEAN
    /\ navLinkCount \in 0..MaxNavLinks
    /\ navActive \in BOOLEAN
    /\ ariaExpanded = "markup"
    /\ slideBtnBound \in BOOLEAN
    /\ menuTarget = NoTarget
    /\ menuBefore = FALSE

MenuIdle ==
    /\ menuWired = FALSE
    /\ navLinkCount = 0
    /\ navActive = FALSE
    /\ ariaExpanded = "markup"
    /\ slideBtnBound = FALSE
    /\ menuTarget = NoTarget
    /\ menuBefore = FALSE

MenuNext ==
    \/ ToggleClick
    \/ NavLinkClick
    \/ NavOtherClick
    \/ OutsideClick
    \/ PlayBtnClick

-----------------------------------------------------------------------------
(* FAQ accordion *)

ClickedFaqStateNoClose(item, active) ==
    [o \in DOMAIN active |-> IF o # item THEN active[o] ELSE ~active[o]]

\* the click listener of item's question: close the others, toggle the item
ClickedFaqState(item, active) ==
    [o \in DOMAIN active |-> IF o # item THEN FALSE ELSE ~active[o]]

FaqQuestionClick ==
    \E item \in 1..faqCount :
        /\ faqHasQuestion[item]
        /\ faqActive' = ClickedFaqState(item, faqActive)
        /\ faqClicked' = item
        /\ faqBefore' = faqActive
        /\ UNCHANGED <<exceptAccordion, faqCount, faqHasQuestion>>

\* the page's markup: any number of items, any of them open, some without a
\* .faq-question element (those get no listener)
AccordionInit ==
    /\ faqCount \in 1..MaxFaqItems
    /\ faqHasQuestion \in [1..faqCount -> BOOLEAN]
    /\ faqActive \in [1..faqCount -> BOOLEAN]
    /\ faqClicked = 0
    /\ faqBefore = faqActive

AccordionIdle ==
    /\ faqCount = 1
    /\ faqHasQuestion = [i \in 1..1 |-> TRUE]
    /\ faqActive = [i \in 1..1 |-> FALSE]
    /\ faqClicked = 0
    /\ faqBefore = [i \in 1..1 |-> FALSE]

AccordionNext == FaqQuestionClick

-----------------------------------------------------------------------------
(* Strings: sequences of characters.  "a" stands for any character that is  *)
(* neither whitespace nor '@' nor '.', " " for any whitespace character.    *)

Chars == {"a", "@", ".", " "}

IsSpace(c) == c = " "

StringsUpTo(n) == UNION {[1..k -> Chars] : k \in 0..n}

\* String.prototype.trim
RECURSIVE TrimLeft(_)
TrimLeft(s) == IF s # <<>> /\ IsSpace(Head(s)) THEN TrimLeft(Tail(s)) ELSE s

RECURSIVE TrimRight(_)
TrimRight(s) ==
    IF s # <<>> /\ IsSpace(s[Len(s)]) THEN TrimRight(SubSeq(s, 1, Len(s) - 1)) ELSE s

Trim(s) == TrimRight(TrimLeft(s))

-----------------------------------------------------------------------------
(* Email validator: re = /^[^\s@]+@[^\s@]+\.[^\s@]+$/ run as an automaton.  *)
(* Positions of the pattern: 0 start, 1 in the first [^\s@]+, 2 after '@', *)
(* 3 in the second [^\s@]+, 4 after the '.', 5 in the third [^\s@]+.       *)

\* the character class [^\s@]
NotSpaceNorAt(c) == ~IsSpace(c) /\ c # "@"

ReStepUnanchored(q, c) ==
    CASE q = 0 -> IF NotSpaceNorAt(c) THEN {1} ELSE {}
      [] q = 1 -> (IF NotSpaceNorAt(c) THEN {1} ELSE {}) \cup (IF c = "@" THEN {2} ELSE {})
      [] q = 2 -> IF NotSpaceNorAt(c) THEN {3} ELSE {}
      [] q = 3 -> (IF NotSpaceNorAt(c) THEN {3} ELSE {}) \cup (IF c = "." THEN {4} ELSE {})
      [] q = 4 -> IF NotSpaceNorAt(c) THEN {5} ELSE {}
      [] q = 5 -> {5}

\* the positions reached from position q on character c
ReStep(q, c) ==
    CASE q = 0 -> IF NotSpaceNorAt(c) THEN {1} ELSE {}
      [] q = 1 -> (IF NotSpaceNorAt(c) THEN {1} ELSE {}) \cup (IF c = "@" THEN {2} ELSE {})
      [] q = 2 -> IF NotSpaceNorAt(c) THEN {3} ELSE {}
      [] q = 3 -> (IF NotSpaceNorAt(c) THEN {3} ELSE {}) \cup (IF c = "." THEN {4} ELSE {})
      [] q = 4 -> IF NotSpaceNorAt(c) THEN {5} ELSE {}
      [] q = 5 -> IF NotSpaceNorAt(c) THEN {5} ELSE {}

RECURSIVE ReRun(_, _)
ReRun(positions, s) ==
    IF s = <<>> THEN positions
    ELSE ReRun(UNION {ReStep(q, Head(s)) : q \in positions}, Tail(s))

\* re.test(email)
isValidEmail(email) == 5 \in ReRun({0}, email)

ValidateEmail ==
    /\ emailResult = "none"
    /\ emailResult' = IF isValidEmail(emailArg) THEN "true" ELSE "false"
    /\ UNCHANGED <<exceptEmail, emailArg>>

EmailInit ==
    /\ emailArg \in StringsUpTo(MaxEmailLen)
    /\ emailResult = "none"

EmailIdle ==
    /\ emailArg = <<>>
    /\ emailResult = "none"

EmailNext == ValidateEmail

-----------------------------------------------------------------------------
(* Form guard *)

\* values a user may leave in a field: empty, blank, a word, no tld,
\* a valid address, a valid address after a blank
FormValues ==
    { <<>>, <<" ">>, <<"a">>, <<"a", "@", "a">>, <<"a", "@", "a", ".", "a">>,
      <<" ", "a", "@", "a", ".", "a">> }

FailsRequired(f) == Trim(fieldValue[f]) = <<>>

FailsEmail(f) == fieldValue[f] # <<>> /\ ~isValidEmail(fieldValue[f])

\* requiredFields.forEach: isValid and the error classes after fields f..fieldCount
RECURSIVE CheckRequired(_, _)
CheckRequired(f, st) ==
    IF f > fieldCount THEN st
    ELSE IF ~fieldRequired[f] THEN CheckRequired(f + 1, st)
    ELSE IF FailsRequired(f)
         THEN CheckRequired(f + 1, [isValid |-> FALSE, error |-> [st.error EXCEPT ![f] = TRUE]])
         ELSE CheckRequired(f + 1, [st EXCEPT !.error[f] = FALSE])

\* emailFields.forEach
RECURSIVE CheckEmails(_, _)
CheckEmails(f, st) ==
    IF f > fieldCount THEN st
    ELSE IF fieldIsEmail[f] /\ FailsEmail(f)
         THEN CheckEmails(f + 1, [isValid |-> FALSE, error |-> [st.error EXCEPT ![f] = TRUE]])
         ELSE CheckEmails(f + 1, st)

SubmitOutcomeNoEmailCheck == CheckRequired(1, [isValid |-> TRUE, error |-> fieldError])

\* the submit listener up to its final test of isValid
SubmitOutcome ==
    CheckEmails(1, CheckRequired(1, [isValid |-> TRUE, error |-> fieldError]))

FormSubmit ==
    /\ fieldError' = SubmitOutcome.error
    /\ defaultPrevented' = ~SubmitOutcome.isValid
    /\ alertCount' = IF ~SubmitOutcome.isValid THEN 1 ELSE 0
    /\ submitState' = "submitted"
    /\ UNCHANGED <<exceptForm, fieldCount, fieldRequired, fieldIsEmail, fieldValue>>

\* the user edits a field
FormInput ==
    \E f \in 1..fieldCount, v \in FormValues :
        /\ v # fieldValue[f]
        /\ fieldValue' = [fieldValue EXCEPT ![f] = v]
        /\ submitState' = "none"
        /\ UNCHANGED <<exceptForm, fieldCount, fieldRequired, fieldIsEmail, fieldError,
                       defaultPrevented, alertCount>>

FormInit ==
    /\ fieldCount \in 1..MaxFields
    /\ fieldRequired \in [1..fieldCount -> BOOLEAN]
    /\ fieldIsEmail \in [1..fieldCount -> BOOLEAN]
    /\ fieldValue = [f \in 1..fieldCount |-> <<>>]
    /\ fieldError = [f \in 1..fieldCount |-> FALSE]
    /\ submitState = "none"
    /\ defaultPrevented = FALSE
    /\ alertCount = 0

FormIdle ==
    /\ fieldCount = 1
    /\ fieldRequired = [f \in 1..1 |-> FALSE]
    /\ fieldIsEmail = [f \in 1..1 |-> FALSE]
    /\ fieldValue = [f \in 1..1 |-> <<>>]
    /\ fieldError = [f \in 1..1 |-> FALSE]
    /\ submitState = "none"
    /\ defaultPrevented = FALSE
    /\ alertCount = 0

FormNext ==
    \/ FormSubmit
    \/ FormInput

-----------------------------------------------------------------------------
(* Video panel *)

\* CONFIG
maxVideos == 4
cacheDuration == 5 * 60 * 1000
testLiveMode == FALSE

\* instants of the wall clock: around every multiple of the cache duration
ClockOffsets == {0, 1000, 299000, 299999}
TimePoints == {k * cacheDuration + o : k \in 0..MaxPeriods, o \in ClockOffsets}

Min(a, b) == IF a < b THEN a ELSE b

\* the channel's n most recent uploads, newest first, as fetchLatestVideos maps them
Upload(k) == [videoId |-> k, title |-> "upload", thumbnail |-> "api"]
LatestVideos(n) == [i \in 1..n |-> Upload(n + 1 - i)]
VideoLists == {LatestVideos(n) : n \in 0..Min(MaxReturned, maxVideos)}

NoVideo == [videoId |-> -1, title |-> "", thumbnail |-> ""]

Null == [kind |-> "null"]
Json(value) == [kind |-> "json", value |-> value]

\* responses of a fetch: rejected, not ok, a body that is not JSON, or a JSON body
FailedResponses == {[kind |-> "rejected"], [kind |-> "notOk"], [kind |-> "badJson"]}

\* loadSpotlightConfig on a response of data/spotlight.json
SpotlightConfigs ==
    { [enabled |-> FALSE, videoId |-> 0, title |-> "none"],
      [enabled |-> TRUE,  videoId |-> -1, title |-> "none"],
      [enabled |-> TRUE,  videoId |-> 0, title |-> "none"],
      [enabled |-> TRUE,  videoId |-> 0, title |-> "cfg"] }

SpotlightResponses == FailedResponses \cup {Null} \cup {Json(c) : c \in SpotlightConfigs}

loadSpotlightConfig(resp) == IF resp.kind = "json" THEN resp.value ELSE Null

getCacheInclusive(store, now) ==
    IF store.kind = "json" /\ now - store.value.timestamp <= cacheDuration
    THEN store ELSE Null

\* getCache with Date.now() = now; an item that does not parse is a miss
getCache(store, now) ==
    IF store.kind = "json" /\ now - store.value.timestamp < cacheDuration
    THEN store ELSE Null

\* the record setCache serialises: {...data, timestamp: Date.now()}
CacheRecord(data, now) ==
    [k \in DOMAIN data \cup {"timestamp"} |-> IF k = "timestamp" THEN now ELSE data[k]]

\* the item after setCache(data); setItem may throw (quota), which is caught
setCache(store, data, now, writeOk) ==
    IF writeOk THEN Json(CacheRecord(data, now)) ELSE store

CacheDataWithLive(vids, live) == [videos |-> vids, isLive |-> live.isLive]

\* the argument init passes to setCache
CacheData(vids, live) == [videos |-> vids]

NotLive == [isLive |-> FALSE, videoId |-> -1]
Live == [isLive |-> TRUE, videoId |-> 0]

\* responses of the live search: items missing, empty, malformed, or one live item
LiveResponses ==
    FailedResponses \cup {[kind |-> "noItems"], [kind |-> "emptyItems"],
                          [kind |-> "malformedItem"], [kind |-> "liveItem"]}

checkLiveStreamTrusting(resp) ==
    IF testLiveMode THEN Live
    ELSE IF resp.kind \in {"liveItem", "malformedItem"} THEN Live
    ELSE NotLive

\* checkLiveStream on the response of the search query
checkLiveStream(resp) ==
    IF testLiveMode THEN Live
    ELSE IF resp.kind = "liveItem" THEN Live
    ELSE NotLive

ChannelResponses ==
    FailedResponses \cup {[kind |-> "noItems"], [kind |-> "emptyItems"],
                          [kind |-> "malformedItem"], [kind |-> "channel"]}

PlaylistResponses ==
    FailedResponses \cup {[kind |-> "noItems"]} \cup {[kind |-> "items", items |-> l] : l \in VideoLists}

\* the page before init writes into it
BlankView ==
    [ sectionDisplay |-> "markup", gridContent |-> "markup", gridCards |-> <<>>,
      cardListeners |-> 0,
      liveDisplay |-> "markup", liveCard |-> NoVideo, liveListeners |-> 0,
      slideDisplay |-> "none", slideThumb |-> NoVideo, slideTitle |-> "markup",
      wrapperListeners |-> 0, btnListeners |-> 0, threw |-> FALSE ]

\* renderYouTubeSection(videos, liveStream, openLightbox)
renderYouTubeSection(view, dom, vids, live) ==
    IF ~dom.section \/ ~dom.grid THEN view
    ELSE
        LET v1 == IF live.isLive /\ dom.live
                  THEN [view EXCEPT !.liveCard = [videoId |-> live.videoId, title |-> "live",
                                                  thumbnail |-> "api"],
                                    !.liveDisplay = "block",
                                    !.liveListeners = 1]
                  ELSE IF dom.live
                  THEN [view EXCEPT !.liveDisplay = "none"]
                  ELSE view
        IN  IF Len(vids) = 0
            THEN [v1 EXCEPT !.gridContent = "unable", !.gridCards = <<>>, !.cardListeners = 0]
            ELSE [v1 EXCEPT !.gridContent = "cards", !.gridCards = vids,
                            !.cardListeners = Len(vids),
                            !.sectionDisplay = "block"]

SpotlightVideoIgnoringEnabled(vids, cfg) ==
    IF cfg # Null /\ cfg.videoId # -1
    THEN [videoId |-> cfg.videoId,
          title |-> IF cfg.title # "none" THEN cfg.title ELSE "Watch Video",
          thumbnail |-> "maxresdefault"]
    ELSE IF Len(vids) > 0 THEN vids[1]
    ELSE NoVideo

\* the video populateCarouselSlide picks, NoVideo if there is none
SpotlightVideo(vids, cfg) ==
    IF cfg # Null /\ cfg.enabled /\ cfg.videoId # -1
    THEN [videoId |-> cfg.videoId,
          title |-> IF cfg.title # "none" THEN cfg.title ELSE "Watch Video",
          thumbnail |-> "maxresdefault"]
    ELSE IF Len(vids) > 0 THEN vids[1]
    ELSE NoVideo

\* populateCarouselSlide(videos, spotlightCfg, openLightbox); writing to a
\* missing thumbnail or title element throws a TypeError
populateCarouselSlide(view, dom, vids, cfg) ==
    LET video == SpotlightVideo(vids, cfg)
    IN  IF ~dom.slide \/ video = NoVideo THEN view
        ELSE IF ~dom.thumb THEN [view EXCEPT !.threw = TRUE]
        ELSE IF ~dom.title THEN [view EXCEPT !.slideThumb = video, !.threw = TRUE]
        ELSE [view EXCEPT !.slideThumb = video,
                          !.slideTitle = video.title,
                          !.slideDisplay = "",
                          !.wrapperListeners = IF dom.wrapper THEN @ + 1 ELSE @,
                          !.btnListeners = IF dom.playBtn THEN @ + 1 ELSE @]

\* the last two lines of init
Render(vids, live, cfg) ==
    LET view == populateCarouselSlide(renderYouTubeSection(ytView, ytDom, vids, live),
                                      ytDom, vids, cfg)
    IN  /\ ytView' = view
        /\ ytPc' = IF view.threw THEN "failed" ELSE "done"

FullPage ==
    [ section |-> TRUE, grid |-> TRUE, live |-> TRUE, slide |-> TRUE, thumb |-> TRUE,
      title |-> TRUE, wrapper |-> TRUE, playBtn |-> TRUE ]

\* pages of the site: with every target, or with one of them missing
DomConfigs == {FullPage} \cup {[FullPage EXCEPT ![k] = FALSE] : k \in DOMAIN FullPage}

NoLog ==
    [live |-> 0, channel |-> 0, playlist |-> 0, reads |-> 0, writes |-> 0, readAt |-> -1,
     liveFailed |-> FALSE, fetchFailed |-> FALSE]

\* a page of the site is loaded and init starts: it returns at once without
\* #youtube-section, else it awaits loadSpotlightConfig
LoadPage ==
    \E dom \in DomConfigs :
        /\ ytDom' = dom
        /\ ytPc' = IF dom.section THEN "spotlight" ELSE "done"
        /\ spotlightCfg' = Null
        /\ liveStream' = NotLive
        /\ cached' = Null
        /\ videos' = <<>>
        /\ ytView' = BlankView
        /\ ytLog' = NoLog
        /\ UNCHANGED <<exceptVideo, clock, storage>>

\* loadSpotlightConfig settles; init calls checkLiveStream
SpotlightResponse ==
    \E resp \in SpotlightResponses :
        /\ ytPc = "spotlight"
        /\ spotlightCfg' = loadSpotlightConfig(resp)
        /\ ytPc' = "live"
        /\ ytLog' = [ytLog EXCEPT !.live = IF testLiveMode THEN @ ELSE @ + 1]
        /\ UNCHANGED <<exceptVideo, clock, storage, ytDom, liveStream, cached, videos, ytView>>

\* checkLiveStream settles; init reads the cache and either renders the cached
\* list or calls fetchLatestVideos
LiveResponse ==
    \E resp \in LiveResponses :
        LET live == checkLiveStream(resp)
            hit  == getCache(storage, clock)
        IN  /\ ytPc = "live"
            /\ liveStream' = live
            /\ cached' = hit
            /\ IF hit # Null
               THEN /\ videos' = hit.value.videos
                    /\ Render(hit.value.videos, live, spotlightCfg)
                    /\ ytLog' = [ytLog EXCEPT !.reads = @ + 1, !.readAt = clock,
                                              !.liveFailed = resp.kind # "liveItem"]
               ELSE /\ ytPc' = "channel"
                    /\ ytLog' = [ytLog EXCEPT !.reads = @ + 1, !.readAt = clock,
                                              !.channel = @ + 1,
                                              !.liveFailed = resp.kind # "liveItem"]
                    /\ UNCHANGED <<videos, ytView>>
            /\ UNCHANGED <<exceptVideo, clock, storage, ytDom, spotlightCfg>>

FetchedVideosUncached(vids, writeOk, failed) ==
    /\ videos' = vids
    /\ storage' = storage
    /\ ytLog' = [ytLog EXCEPT !.fetchFailed = failed]
    /\ Render(vids, liveStream, spotlightCfg)

\* fetchLatestVideos resolved to vids, from its try block or (failed) from its
\* catch block: init caches and renders them
FetchedVideos(vids, writeOk, failed) ==
    /\ videos' = vids
    /\ storage' = setCache(storage, CacheData(vids, liveStream), clock, writeOk)
    /\ ytLog' = [ytLog EXCEPT !.writes = @ + 1, !.fetchFailed = failed]
    /\ Render(vids, liveStream, spotlightCfg)

\* the channel query settles: on failure fetchLatestVideos returns []
ChannelResponse ==
    \E resp \in ChannelResponses, writeOk \in BOOLEAN :
        /\ ytPc = "channel"
        /\ IF resp.kind = "channel"
           THEN /\ ytPc' = "playlist"
                /\ ytLog' = [ytLog EXCEPT !.playlist = @ + 1]
                /\ UNCHANGED <<videos, storage, ytView>>
           ELSE FetchedVideos(<<>>, writeOk, TRUE)
        /\ UNCHANGED <<exceptVideo, clock, ytDom, spotlightCfg, liveStream, cached>>

\* the playlist query settles
PlaylistResponse ==
    \E resp \in PlaylistResponses, writeOk \in BOOLEAN :
        /\ ytPc = "playlist"
        /\ FetchedVideos(IF resp.kind = "items" THEN resp.items ELSE <<>>, writeOk,
                         resp.kind # "items")
        /\ UNCHANGED <<exceptVideo, clock, ytDom, spotlightCfg, liveStream, cached>>

\* time passes, to the next instant of the model
AdvanceClock ==
    \E t \in TimePoints :
        /\ t > clock
        /\ \A u \in TimePoints : u > clock => t <= u
        /\ clock' = t
        /\ UNCHANGED <<exceptVideo, storage, ytDom, ytPc, spotlightCfg, liveStream, cached,
                       videos, ytView, ytLog>>

\* before the first page load: the item is absent or left by something else
VideoInit ==
    /\ clock = 0
    /\ storage \in {[kind |-> "absent"], [kind |-> "garbage"]}
    /\ ytDom = FullPage
    /\ ytPc = "unloaded"
    /\ spotlightCfg = Null
    /\ liveStream = NotLive
    /\ cached = Null
    /\ videos = <<>>
    /\ ytView = BlankView
    /\ ytLog = NoLog

VideoIdle ==
    /\ clock = 0
    /\ storage = [kind |-> "absent"]
    /\ ytDom = FullPage
    /\ ytPc = "unloaded"
    /\ spotlightCfg = Null
    /\ liveStream = NotLive
    /\ cached = Null
    /\ videos = <<>>
    /\ ytView = BlankView
    /\ ytLog = NoLog

VideoNext ==
    \/ LoadPage
    \/ SpotlightResponse
    \/ LiveResponse
    \/ ChannelResponse
    \/ PlaylistResponse
    \/ AdvanceClock

-----------------------------------------------------------------------------
(* Prayer times *)

MONTHS ==
    << "january", "february", "march", "april", "may", "june",
       "july", "august", "september", "october", "november", "december" >>

\* the months a timetable file of the model may hold, and the days of its records
FileMonths == {"march", "april"}
FileDays == {14, 15}
QueryDays == {14, 15, 16}

\* the months of the dates asked for, as getMonth() gives them: january,
\* march, april
QueryMonths == {0, 2, 3}

\* a month's array: day records in file order; row stands for the times of the
\* record, which differ from row to row
MonthArrays ==
    UNION {{[i \in 1..n |-> [date |-> d[i], row |-> i]] : d \in [1..n -> FileDays]} : n \in 0..MaxDays}

PrayerFiles == UNION {[ms -> MonthArrays] : ms \in SUBSET FileMonths}

FindIndexByPosition(monthData, day) ==
    IF day \in 1..Len(monthData) THEN day ELSE 0

\* monthData.find(d => d.date === day): the index of the first match, 0 if none
FindIndex(monthData, day) ==
    IF \E i \in 1..Len(monthData) : monthData[i].date = day
    THEN CHOOSE i \in 1..Len(monthData) :
            /\ monthData[i].date = day
            /\ \A j \in 1..(i - 1) : monthData[j].date # day
    ELSE 0

\* getTimesForDate once loadPrayerTimesData has resolved to data
getTimesForDate(data, date) ==
    IF data = Null THEN Null
    ELSE LET month == MONTHS[date.month + 1]
         IN  IF month \notin DOMAIN data.value THEN Null
             ELSE LET monthData == data.value[month]
                      found == FindIndex(monthData, date.day)
                  IN  IF found = 0 THEN Null ELSE Json(monthData[found])

\* the second copy of the module
getTimesForDateCopy(data, date) ==
    IF data = Null THEN Null
    ELSE LET month == MONTHS[date.month + 1]
         IN  IF month \notin DOMAIN data.value THEN Null
             ELSE LET monthData == data.value[month]
                      found == FindIndex(monthData, date.day)
                  IN  IF found = 0 THEN Null ELSE Json(monthData[found])

\* loadPrayerTimesData on the response of the fetch
loadPrayerTimesData(resp) == IF resp.kind = "json" THEN resp ELSE Null

NoDate == [month |-> 0, day |-> 0]
NoTable == [year |-> 0, month |-> 0]

\* the arguments of renderMonthlyTable in the model: the year of the timetable
\* and the next one; the months asked for, counted from 1
TableYears == {2025, 2026}
TableMonths == {m + 1 : m \in QueryMonths}

\* pages of the site: with every target, without #hijri-date, without the
\* container of the monthly table
PrayerPages ==
    { [hijri |-> TRUE, container |-> TRUE],
      [hijri |-> FALSE, container |-> TRUE],
      [hijri |-> TRUE, container |-> FALSE] }

\* the page before the module writes into it
BlankPrayerView ==
    [times |-> Null, hijri |-> "markup", gregorian |-> "markup", container |-> "markup",
     table |-> <<>>]

NoPrayerLog == [requests |-> 0, failed |-> FALSE, refetched |-> FALSE]

NeedsFetchAlways(data) == TRUE

\* loadPrayerTimesData issues a request unless the module holds the data
NeedsFetch(data) == data = Null

\* the log when an operation starts and loadPrayerTimesData is called
CallLog(log, data) ==
    IF NeedsFetch(data)
    THEN [log EXCEPT !.requests = 1, !.refetched = @ \/ log.failed]
    ELSE [log EXCEPT !.requests = 0]

\* getMonthlyCalendar(year, month) once loadPrayerTimesData has resolved to data
getMonthlyCalendar(data, year, month) ==
    IF year # 2025 THEN Null
    ELSE IF data = Null THEN Null
    ELSE IF MONTHS[month] \notin DOMAIN data.value THEN Null
    ELSE Json(data.value[MONTHS[month]])

\* updateDisplay from the day record on, up to the await of getHijriDate: the
\* times are written only if there is a record
TimesWritten(view, dayData) ==
    IF dayData = Null THEN view ELSE [view EXCEPT !.times = dayData]

\* the rest of updateDisplay once getHijriDate has resolved with calendar
DatesWritten(view, page, calendar) ==
    [view EXCEPT !.hijri = IF ~page.hijri THEN @
                           ELSE IF calendar = Null THEN "unknown" ELSE "dated",
                 !.gregorian = "written"]

\* updateDisplay continues with the day record: without a record it logs to the
\* console and returns; else it writes the times and awaits getHijriDate if the
\* page has #hijri-date
DisplayDay(dayData) ==
    IF dayData = Null
    THEN /\ prayerPc' = "returned"
         /\ UNCHANGED prayerView
    ELSE IF prayerPage.hijri /\ hijriCalendarData = Null
    THEN /\ prayerPc' = "hijri"
         /\ prayerView' = TimesWritten(prayerView, dayData)
    ELSE /\ prayerPc' = "returned"
         /\ prayerView' = DatesWritten(TimesWritten(prayerView, dayData), prayerPage,
                                       hijriCalendarData)

\* renderMonthlyTable once getMonthlyCalendar has resolved to calendar
TableWritten(view, calendar) ==
    IF calendar = Null \/ Len(calendar.value) = 0
    THEN [view EXCEPT !.container = "couldNotLoad", !.table = <<>>]
    ELSE [view EXCEPT !.container = "table", !.table = calendar.value]

\* getTimesForDate(date) is called; with the data already loaded it resolves
\* without a fetch
GetTimesForDateCall ==
    \E m \in QueryMonths, d \in QueryDays :
        /\ prayerPc \in {"idle", "returned"}
        /\ prayerOp' = "getTimesForDate"
        /\ prayerDate' = [month |-> m, day |-> d]
        /\ prayerTable' = NoTable
        /\ prayerLog' = CallLog(prayerLog, prayerTimesData)
        /\ IF NeedsFetch(prayerTimesData)
           THEN /\ prayerPc' = "loading"
                /\ prayerResult' = Null
           ELSE /\ prayerPc' = "returned"
                /\ prayerResult' = getTimesForDate(prayerTimesData, [month |-> m, day |-> d])
        /\ UNCHANGED <<exceptPrayer, prayerFile, prayerTimesData, hijriCalendarData, prayerPage,
                       prayerView>>

\* updateDisplay() is called by the DOMContentLoaded listener, before any other
\* operation of the page: getTodaysTimes is getTimesForDate(new Date())
UpdateDisplayCall ==
    \E m \in QueryMonths, d \in QueryDays :
        LET today == [month |-> m, day |-> d]
        IN  /\ prayerPc = "idle"
            /\ prayerOp' = "updateDisplay"
            /\ prayerDate' = today
            /\ prayerLog' = CallLog(prayerLog, prayerTimesData)
            /\ IF NeedsFetch(prayerTimesData)
               THEN /\ prayerPc' = "loading"
                    /\ prayerResult' = Null
                    /\ UNCHANGED prayerView
               ELSE /\ prayerResult' = getTimesForDate(prayerTimesData, today)
                    /\ DisplayDay(getTimesForDate(prayerTimesData, today))
            /\ UNCHANGED <<exceptPrayer, prayerFile, prayerTimesData, hijriCalendarData,
                           prayerPage, prayerTable>>

\* renderMonthlyTable(containerId, year, month) is called: without the container
\* it returns at once; else it writes the loading text and awaits
\* getMonthlyCalendar, which fetches only for the year 2025
RenderMonthlyTableCall ==
    \E year \in TableYears, month \in TableMonths :
        /\ prayerPc \in {"idle", "returned"}
        /\ prayerOp' = "renderMonthlyTable"
        /\ prayerTable' = [year |-> year, month |-> month]
        /\ prayerDate' = NoDate
        /\ prayerResult' = Null
        /\ IF ~prayerPage.container
           THEN /\ prayerPc' = "returned"
                /\ prayerLog' = [prayerLog EXCEPT !.requests = 0]
                /\ UNCHANGED prayerView
           ELSE IF year = 2025 /\ NeedsFetch(prayerTimesData)
           THEN /\ prayerPc' = "loading"
                /\ prayerLog' = CallLog(prayerLog, prayerTimesData)
                /\ prayerView' = [prayerView EXCEPT !.container = "loading", !.table = <<>>]
           ELSE /\ prayerPc' = "returned"
                /\ prayerLog' = [prayerLog EXCEPT !.requests = 0]
                /\ prayerView' = TableWritten(prayerView,
                                              getMonthlyCalendar(prayerTimesData, year, month))
        /\ UNCHANGED <<exceptPrayer, prayerFile, prayerTimesData, hijriCalendarData, prayerPage>>

\* the fetch of the timetable settles and the operation that awaits it goes on
PrayerResponse ==
    \E resp \in FailedResponses \cup {Json(prayerFile)} :
        LET data == loadPrayerTimesData(resp)
        IN  /\ prayerPc = "loading"
            /\ prayerTimesData' = data
            /\ prayerLog' = [prayerLog EXCEPT !.failed = @ \/ data = Null]
            /\ IF prayerOp = "renderMonthlyTable"
               THEN /\ prayerPc' = "returned"
                    /\ prayerView' = TableWritten(prayerView,
                                        getMonthlyCalendar(data, prayerTable.year,
                                                           prayerTable.month))
                    /\ UNCHANGED prayerResult
               ELSE /\ prayerResult' = getTimesForDate(data, prayerDate)
                    /\ IF prayerOp = "updateDisplay"
                       THEN DisplayDay(getTimesForDate(data, prayerDate))
                       ELSE /\ prayerPc' = "returned"
                            /\ UNCHANGED prayerView
            /\ UNCHANGED <<exceptPrayer, prayerFile, hijriCalendarData, prayerPage, prayerOp,
                           prayerDate, prayerTable>>

\* the fetch of the lunar calendar settles: updateDisplay writes the two dates
HijriResponse ==
    \E resp \in FailedResponses \cup {Json("calendar")} :
        LET calendar == IF resp.kind = "json" THEN resp ELSE Null
        IN  /\ prayerPc = "hijri"
            /\ hijriCalendarData' = calendar
            /\ prayerView' = DatesWritten(prayerView, prayerPage, calendar)
            /\ prayerPc' = "returned"
            /\ UNCHANGED <<exceptPrayer, prayerFile, prayerTimesData, prayerPage, prayerOp,
                           prayerDate, prayerTable, prayerResult, prayerLog>>

PrayerInit ==
    /\ prayerFile \in PrayerFiles
    /\ prayerTimesData = Null
    /\ hijriCalendarData = Null
    /\ prayerPage \in PrayerPages
    /\ prayerOp = "none"
    /\ prayerPc = "idle"
    /\ prayerDate = NoDate
    /\ prayerTable = NoTable
    /\ prayerResult = Null
    /\ prayerView = BlankPrayerView
    /\ prayerLog = NoPrayerLog

PrayerIdle ==
    /\ prayerFile = <<>>
    /\ prayerTimesData = Null
    /\ hijriCalendarData = Null
    /\ prayerPage = [hijri |-> TRUE, container |-> TRUE]
    /\ prayerOp = "none"
    /\ prayerPc = "idle"
    /\ prayerDate = NoDate
    /\ prayerTable = NoTable
    /\ prayerResult = Null
    /\ prayerView = BlankPrayerView
    /\ prayerLog = NoPrayerLog

PrayerNext ==
    \/ GetTimesForDateCall
    \/ UpdateDisplayCall
    \/ RenderMonthlyTableCall
    \/ PrayerResponse
    \/ HijriResponse

-----------------------------------------------------------------------------
(* Event banner *)

\* the named fields of the spotlight section, each with its own element
SpotFields == {"poster", "title", "date", "description", "time", "location", "facebookUrl"}

\* sets of fields: none, one of them, all of them
FieldSets == {{}, SpotFields} \cup {{f} : f \in SpotFields}

\* a JSON flag: true, false or not given
Flags == {"true", "false", "absent"}

\* linkText: not given, without an em dash, with one, with two, or not a string
LinkTexts == {"absent", "plain", "onedash", "twodashes", "number"}

BarConfigs ==
    {Null} \cup {Json([enabled |-> e, linkUrl |-> u, linkText |-> t]) :
                    e \in Flags, u \in {"absent", "url"}, t \in LinkTexts}

SpotConfigs ==
    {Null} \cup {Json([enabled |-> e, given |-> g]) : e \in Flags, g \in FieldSets}

\* responses of the fetch of data/events.json; the JSON document may be null
EventResponses ==
    FailedResponses \cup {Null}
        \cup {Json([notificationBar |-> b, spotlight |-> sp]) : b \in BarConfigs, sp \in SpotConfigs}

EnabledUnlessFalse(config) == config # Null /\ config.value.enabled # "false"

\* config && config.enabled
Enabled(config) == config # Null /\ config.value.enabled = "true"

\* hideNotificationBar / hideSpotlight
Hide(present, view) == IF present THEN [view EXCEPT !.display = "none"] ELSE view

\* the innerHTML built from linkText
BarText(linkText) ==
    IF linkText = "onedash" THEN "<strong>first</strong> - second" ELSE "<strong>all</strong>"

\* updateNotificationBar(config); threw: linkText.split is not a function
updateNotificationBar(dom, view, config) ==
    IF ~dom.bar THEN [view |-> view, threw |-> FALSE]
    ELSE IF ~Enabled(config) THEN [view |-> Hide(dom.bar, view), threw |-> FALSE]
    ELSE LET shown == [view EXCEPT !.display = "",
                                   !.href = IF config.value.linkUrl # "absent"
                                            THEN config.value.linkUrl ELSE "#event-spotlight"]
         IN  IF ~dom.text \/ config.value.linkText = "absent"
             THEN [view |-> shown, threw |-> FALSE]
             ELSE IF config.value.linkText = "number"
             THEN [view |-> shown, threw |-> TRUE]
             ELSE [view |-> [shown EXCEPT !.text = BarText(config.value.linkText)],
                   threw |-> FALSE]

\* updateSpotlight(config); a field is written when its element exists and
\* its value is given
updateSpotlight(dom, view, config) ==
    IF ~dom.section THEN view
    ELSE IF ~Enabled(config) THEN Hide(dom.section, view)
    ELSE [view EXCEPT !.display = "",
                      !.written = @ \cup (config.value.given \cap dom.fields),
                      !.posterAlt = IF "poster" \in config.value.given \cap dom.fields
                                    THEN IF "title" \in config.value.given
                                         THEN "title Event Poster"
                                         ELSE "undefined Event Poster"
                                    ELSE @]

HideBarOnly(bar, spot) == [bar |-> Hide(evDom.bar, bar), spot |-> spot]

\* the catch block of loadEvents
HideBoth(bar, spot) == [bar |-> Hide(evDom.bar, bar), spot |-> Hide(evDom.section, spot)]

\* loadEvents after the fetch has settled
LoadedEvents(resp) ==
    IF resp.kind # "json"
    THEN HideBoth(barView, spotView)
    ELSE LET bar == updateNotificationBar(evDom, barView, resp.value.notificationBar)
         IN  IF bar.threw
             THEN HideBoth(bar.view, spotView)
             ELSE [bar |-> bar.view,
                   spot |-> updateSpotlight(evDom, spotView, resp.value.spotlight)]

EventsResponse ==
    \E resp \in EventResponses :
        /\ evPc = "loading"
        /\ evResponse' = resp
        /\ barView' = LoadedEvents(resp).bar
        /\ spotView' = LoadedEvents(resp).spot
        /\ evPc' = "done"
        /\ UNCHANGED <<exceptEvents, evDom>>

\* the page: the bar, its text element and the section there or not, the
\* elements of the fields all there, all but one, or none; bar and section
\* visible or hidden by the markup
EventsInit ==
    /\ evDom \in [bar : BOOLEAN, text : BOOLEAN, section : BOOLEAN,
                  fields : {SpotFields \ g : g \in FieldSets}]
    /\ evPc = "loading"
    /\ evResponse = Null
    /\ barView \in [display : {"", "none"}, href : {"markup"}, text : {"markup"}]
    /\ spotView \in [display : {"", "none"}, written : {{}}, posterAlt : {"markup"}]

EventsIdle ==
    /\ evDom = [bar |-> FALSE, text |-> FALSE, section |-> FALSE, fields |-> {}]
    /\ evPc = "done"
    /\ evResponse = Null
    /\ barView = [display |-> "none", href |-> "markup", text |-> "markup"]
    /\ spotView = [display |-> "none", written |-> {}, posterAlt |-> "markup"]

EventsNext == EventsResponse

-----------------------------------------------------------------------------
(* Lunar date: PrayerTimes.getHijriDate, the record-based strategy *)

MaxCalendarDay == 4

HourMs == 1000 * 60 * 60
DayMs == 1000 * 60 * 60 * 24

\* time zones at or east of Greenwich: without daylight saving, or with one
\* transition in the range, in the night after midnight of the given day
\* ("forward" into summer time, "back" out of it)
Zones ==
    {[kind |-> "fixed", day |-> 0]}
        \cup {[kind |-> k, day |-> d] : k \in {"forward", "back"}, d \in 0..(MaxCalendarDay - 1)}

\* the summer-time offset in force at local midnight of calendar day d
SummerOffset(zone, d) ==
    IF zone.kind = "forward" THEN (IF d > zone.day THEN HourMs ELSE 0)
    ELSE IF zone.kind = "back" THEN (IF d > zone.day THEN 0 ELSE HourMs)
    ELSE 0

\* the time value of local midnight at the start of calendar day d
LocalMidnight(zone, d) == d * DayMs - SummerOffset(zone, d)

\* the calendar day, in local time, that holds time value t
LocalDay(zone, t) ==
    CHOOSE d \in -1..(MaxCalendarDay + 1) :
        LocalMidnight(zone, d) <= t /\ t < LocalMidnight(zone, d + 1)

\* date.setHours(0, 0, 0, 0)
SetHoursZero(zone, t) == LocalMidnight(zone, LocalDay(zone, t))

\* new Date(gregorianStartDate) for a date-only string: midnight UTC of that day
ParseDate(d) == d * DayMs

TimesOfDay == {0, 12 * HourMs}

\* new Date(): the time value of the moment of the call
TimeValue(zone, now) == LocalMidnight(zone, now.day) + now.ms

MonthRecord(start, name) ==
    [gregorianStartDate |-> start, hijriMonth |-> name, hijriYear |-> 1446]

\* data/hijri-calendar.json: the current month starts before the next
Calendars ==
    { [currentMonth |-> MonthRecord(p[1], "Ramadan"), nextMonth |-> MonthRecord(p[2], "Shawwal")] :
        p \in {q \in (0..MaxCalendarDay) \X (0..MaxCalendarDay) : q[1] < q[2]} }

UnknownDate == [day |-> "?", month |-> "?", year |-> "?"]

\* the day of the month: Math.floor(diffTime / (1000 * 60 * 60 * 24)) + 1
DayOfMonth(today, monthStart) == ((today - monthStart) \div DayMs) + 1

\* getHijriDate() once loadHijriCalendarData has resolved to calendar
getHijriDate(zone, calendar, now) ==
    IF calendar = Null THEN UnknownDate
    ELSE
        LET today == SetHoursZero(zone, TimeValue(zone, now))
            nextMonthStart ==
                SetHoursZero(zone, ParseDate(calendar.nextMonth.gregorianStartDate))
            currentMonthStart ==
                SetHoursZero(zone, ParseDate(calendar.currentMonth.gregorianStartDate))
        IN  IF today >= nextMonthStart
            THEN [day |-> DayOfMonth(today, nextMonthStart),
                  month |-> calendar.nextMonth.hijriMonth,
                  year |-> calendar.nextMonth.hijriYear]
            ELSE [day |-> DayOfMonth(today, currentMonthStart),
                  month |-> calendar.currentMonth.hijriMonth,
                  year |-> calendar.currentMonth.hijriYear]

\* a call of getHijriDate resolves
GetHijriDateCall ==
    /\ hijriDate = Null
    /\ hijriDate' = getHijriDate(hijriZone, hijriCalendar, hijriNow)
    /\ UNCHANGED <<exceptHijri, hijriZone, hijriCalendar, hijriNow>>

\* the zone of the browser, the calendar file (Null: it failed to load) and the
\* moment of the call
HijriInit ==
    /\ hijriZone \in Zones
    /\ hijriCalendar \in Calendars \cup {Null}
    /\ hijriNow \in [day : 0..MaxCalendarDay, ms : TimesOfDay]
    /\ hijriDate = Null

HijriIdle ==
    /\ hijriZone = [kind |-> "fixed", day |-> 0]
    /\ hijriCalendar = Null
    /\ hijriNow = [day |-> 0, ms |-> 0]
    /\ hijriDate = Null

HijriNext == GetHijriDateCall

-----------------------------------------------------------------------------
(* PrayerTimes.loadPrayerTimesData under concurrent callers *)

MaxCallers == 3

Callers == 1..MaxCallers

Pending == -1

NoLoads == [requests |-> 0, failed |-> 0, parsed |-> 0]

\* a caller (updateDisplay, renderMonthlyTable, getTimesForDate) calls
\* loadPrayerTimesData: it returns the cached object if there is one, else it
\* issues the request and awaits it
LoadCall ==
    \E c \in Callers :
        /\ loadPc[c] = "idle"
        /\ IF loadCache # 0
           THEN /\ loadPc' = [loadPc EXCEPT ![c] = "returned"]
                /\ loadReturned' = [loadReturned EXCEPT ![c] = loadCache]
                /\ UNCHANGED loadLog
           ELSE /\ loadPc' = [loadPc EXCEPT ![c] = "fetching"]
                /\ loadLog' = [loadLog EXCEPT !.requests = @ + 1]
                /\ UNCHANGED loadReturned
        /\ UNCHANGED <<exceptLoader, loadCache>>

\* the fetch of a caller settles: with an OK response the caller awaits
\* response.json(), else the catch block returns null
FetchSettles ==
    \E c \in Callers, ok \in BOOLEAN :
        /\ loadPc[c] = "fetching"
        /\ IF ok
           THEN /\ loadPc' = [loadPc EXCEPT ![c] = "parsing"]
                /\ UNCHANGED <<loadReturned, loadLog>>
           ELSE /\ loadPc' = [loadPc EXCEPT ![c] = "returned"]
                /\ loadReturned' = [loadReturned EXCEPT ![c] = 0]
                /\ loadLog' = [loadLog EXCEPT !.failed = @ + 1]
        /\ UNCHANGED <<exceptLoader, loadCache>>

\* response.json() of a caller settles: the object it parsed (a new one for
\* each response) is assigned to prayerTimesData and returned, or the catch
\* block returns null
JsonSettles ==
    \E c \in Callers, ok \in BOOLEAN :
        /\ loadPc[c] = "parsing"
        /\ loadPc' = [loadPc EXCEPT ![c] = "returned"]
        /\ IF ok
           THEN /\ loadCache' = loadLog.parsed + 1
                /\ loadReturned' = [loadReturned EXCEPT ![c] = loadLog.parsed + 1]
                /\ loadLog' = [loadLog EXCEPT !.parsed = @ + 1]
           ELSE /\ loadReturned' = [loadReturned EXCEPT ![c] = 0]
                /\ loadLog' = [loadLog EXCEPT !.failed = @ + 1]
                /\ UNCHANGED loadCache
        /\ UNCHANGED exceptLoader

\* the page has loaded the script: nothing is cached, nobody has called yet
LoaderInit ==
    /\ loadPc = [c \in Callers |-> "idle"]
    /\ loadCache = 0
    /\ loadReturned = [c \in Callers |-> Pending]
    /\ loadLog = NoLoads

LoaderIdle ==
    /\ loadPc = [c \in Callers |-> "idle"]
    /\ loadCache = 0
    /\ loadReturned = [c \in Callers |-> Pending]
    /\ loadLog = NoLoads

LoaderNext ==
    \/ LoadCall
    \/ FetchSettles
    \/ JsonSettles

-----------------------------------------------------------------------------
(* Specifications: one per component *)

InitCarousel ==
    CarouselInit /\ AccordionIdle /\ FormIdle /\ EmailIdle /\ VideoIdle /\ PrayerIdle /\ EventsIdle /\ MenuIdle
    /\ HijriIdle /\ LoaderIdle

SpecCarousel == InitCarousel /\ [][CarouselNext]_vars

\* autoplay and the listeners that stop and start it (hover and touch, a swipe
\* included)
AutoplayNext ==
    \/ MouseEnter
    \/ MouseLeave
    \/ TouchStart
    \/ TouchEnd
    \/ TimerTick
    \/ Elapse

\* the carousel with the browser's timers running: time does not stop, and an
\* interval that is due fires
SpecAutoplay ==
    /\ InitCarousel
    /\ [][AutoplayNext]_vars
    /\ WF_vars(Elapse)
    /\ WF_vars(TimerTick)

InitMenu ==
    MenuInit /\ CarouselIdle /\ AccordionIdle /\ FormIdle /\ EmailIdle /\ VideoIdle /\ PrayerIdle /\ EventsIdle
    /\ HijriIdle /\ LoaderIdle

SpecMenu == InitMenu /\ [][MenuNext]_vars

InitAccordion ==
    AccordionInit /\ CarouselIdle /\ FormIdle /\ EmailIdle /\ VideoIdle /\ PrayerIdle /\ EventsIdle /\ MenuIdle
    /\ HijriIdle /\ LoaderIdle

SpecAccordion == InitAccordion /\ [][AccordionNext]_vars

InitForm ==
    FormInit /\ CarouselIdle /\ AccordionIdle /\ EmailIdle /\ VideoIdle /\ PrayerIdle /\ EventsIdle /\ MenuIdle
    /\ HijriIdle /\ LoaderIdle

SpecForm == InitForm /\ [][FormNext]_vars

InitEmail ==
    EmailInit /\ CarouselIdle /\ AccordionIdle /\ FormIdle /\ VideoIdle /\ PrayerIdle /\ EventsIdle /\ MenuIdle
    /\ HijriIdle /\ LoaderIdle

SpecEmail == InitEmail /\ [][EmailNext]_vars

InitVideo ==
    VideoInit /\ CarouselIdle /\ AccordionIdle /\ FormIdle /\ EmailIdle /\ PrayerIdle /\ EventsIdle /\ MenuIdle
    /\ HijriIdle /\ LoaderIdle

SpecVideo == InitVideo /\ [][VideoNext]_vars

InitPrayer ==
    PrayerInit /\ CarouselIdle /\ AccordionIdle /\ FormIdle /\ EmailIdle /\ VideoIdle /\ EventsIdle /\ MenuIdle
    /\ HijriIdle /\ LoaderIdle

SpecPrayer == InitPrayer /\ [][PrayerNext]_vars

InitEvents ==
    EventsInit /\ CarouselIdle /\ AccordionIdle /\ FormIdle /\ EmailIdle /\ VideoIdle /\ PrayerIdle /\ MenuIdle
    /\ HijriIdle /\ LoaderIdle

SpecEvents == InitEvents /\ [][EventsNext]_vars

InitHijri ==
    HijriInit /\ CarouselIdle /\ AccordionIdle /\ FormIdle /\ EmailIdle /\ VideoIdle /\ PrayerIdle
    /\ EventsIdle /\ MenuIdle /\ LoaderIdle

SpecHijri == InitHijri /\ [][HijriNext]_vars

InitLoader ==
    LoaderInit /\ CarouselIdle /\ AccordionIdle /\ FormIdle /\ EmailIdle /\ VideoIdle /\ PrayerIdle
    /\ EventsIdle /\ MenuIdle /\ HijriIdle

SpecLoader == InitLoader /\ [][LoaderNext]_vars

-----------------------------------------------------------------------------
(* Properties *)

\* C1: from index 0, k consecutive nextSlide calls leave the index at k mod N
\* (0,1,...,N-1 and then 0 again), and prevSlide from index 0 yields N-1.
C1_NextCyclesPrevWraps ==
    /\ nextRun >= 0 => currentSlide = nextRun % slideCount
    /\ (lastNav = "prev" /\ lastFrom = 0) => currentSlide = slideCount - 1

\* a full cycle of the largest carousel: N nextSlide calls from 0 are back at 0
C1_Witness ==
    /\ slideCount = MaxSlides
    /\ nextRun = slideCount
    /\ lastNav = "next"
    /\ lastFrom = slideCount - 1
    /\ currentSlide = 0

\* C10: while the pointer is over the track no autoplay timer is armed and the
\* timer does not advance the slide, whatever other events occur; on leave
\* exactly one timer is armed.
C10_HoverKeepsAutoplayPaused ==
    /\ hovering => (armed = {} /\ lastEvent # "timer")
    /\ lastEvent = "mouseleave" => Cardinality(armed) = 1

OpenFaqItems == {i \in 1..faqCount : faqActive[i]}

\* C2: after any click on a FAQ question every other item is closed and only
\* the clicked item's state is flipped, so at most one item is open: clicking
\* B while A is open leaves A closed and B open, and clicking an open item
\* leaves every item closed.
C2_AtMostOneOpen ==
    faqClicked # 0 =>
        /\ \A o \in 1..faqCount : o # faqClicked => ~faqActive[o]
        /\ faqActive[faqClicked] = ~faqBefore[faqClicked]
        /\ Cardinality(OpenFaqItems) <= 1
        /\ faqBefore[faqClicked] => OpenFaqItems = {}

\* item 2 was clicked while item 1 was open and item 2 closed: only 2 is open
C2_Witness ==
    /\ faqCount >= 2
    /\ faqClicked = 2
    /\ faqBefore[1] /\ ~faqBefore[2]
    /\ OpenFaqItems = {2}

\* C5: on submit the submission is cancelled and exactly one alert is shown if
\* and only if some required field is empty after trimming or some email field
\* holds a non-empty value that does not match the email pattern; otherwise
\* the submission goes through and no alert is shown.
C5_CancelledIffSomeCheckFails ==
    submitState = "submitted" =>
        LET someFails ==
                \E f \in 1..fieldCount :
                    \/ fieldRequired[f] /\ Trim(fieldValue[f]) = <<>>
                    \/ fieldIsEmail[f] /\ fieldValue[f] # <<>> /\ ~isValidEmail(fieldValue[f])
        IN  /\ defaultPrevented <=> someFails
            /\ alertCount = IF someFails THEN 1 ELSE 0

\* a submit cancelled only because a non-required email field is malformed
C5_Witness ==
    /\ submitState = "submitted"
    /\ defaultPrevented
    /\ alertCount = 1
    /\ \A f \in 1..fieldCount : ~(fieldRequired[f] /\ Trim(fieldValue[f]) = <<>>)
    /\ \E f \in 1..fieldCount : fieldIsEmail[f] /\ fieldValue[f] = <<"a", "@", "a">>

\* the strings local@domain.tld with three non-empty parts, none of which
\* holds whitespace or '@'
HasEmailShape(s) ==
    \E i \in 1..Len(s), j \in 1..Len(s) :
        /\ 1 < i /\ i + 1 < j /\ j < Len(s)
        /\ s[i] = "@" /\ s[j] = "."
        /\ \A k \in (1..Len(s)) \ {i} : s[k] # "@" /\ s[k] # " "

\* C6: isValidEmail accepts "a@b.co", rejects "a@b", "a.b" and "", and in
\* general accepts exactly the strings of the form local@domain.tld.
C6_EmailPattern ==
    /\ isValidEmail(<<"a", "@", "a", ".", "a", "a">>)
    /\ ~isValidEmail(<<"a", "@", "a">>)
    /\ ~isValidEmail(<<"a", ".", "a">>)
    /\ ~isValidEmail(<<>>)
    /\ emailResult # "none" => (emailResult = "true" <=> HasEmailShape(emailArg))

\* the call isValidEmail("a@b.co") has returned true
C6_Witness ==
    /\ emailArg = <<"a", "@", "a", ".", "a", "a">>
    /\ emailResult = "true"

\* C3: a cache entry written at time T is returned by getCache at every read
\* time before T + 5 minutes (so at T + 4min59s) and is a miss at every read
\* time at or after T + 5 minutes (so at T + 5min01s); both for the item and
\* clock of every reachable state and for the read init has made in this run.
C3_CacheExpiresAtFiveMinutes ==
    /\ (storage.kind = "json" /\ clock >= storage.value.timestamp) =>
          getCache(storage, clock) =
              IF clock - storage.value.timestamp < 300000 THEN storage ELSE Null
    /\ (storage.kind = "json" /\ ytLog.reads = 1 /\ ytLog.writes = 0
          /\ ytLog.readAt >= storage.value.timestamp) =>
          cached = IF ytLog.readAt - storage.value.timestamp < 300000 THEN storage ELSE Null

\* init took the list from an entry written 4min59s before the read
C3_Witness ==
    /\ ytPc = "done"
    /\ ytLog.reads = 1
    /\ cached # Null
    /\ ytLog.readAt - cached.value.timestamp = 299000
    /\ videos = cached.value.videos

\* C4: every run of init that finds #youtube-section has issued one live
\* query by the time it reads the cache, whether or not the cache holds a valid
\* entry, and the record in the cache holds the video list and a timestamp only.
C4_LiveStatusNeverCached ==
    /\ (ytLog.reads >= 1 \/ (ytDom.section /\ ytPc \in {"channel", "playlist", "done", "failed"}))
          => ytLog.live = 1
    /\ storage.kind = "json" => DOMAIN storage.value = {"videos", "timestamp"}

\* a run that found a valid cache entry, and still queried and found a live stream
C4_Witness ==
    /\ ytPc = "done"
    /\ cached # Null
    /\ ytLog.live = 1
    /\ ytLog.channel = 0
    /\ liveStream.isLive
    /\ storage = cached

\* the records of the file's month of that name whose date field is day
MatchingRecords(monthName, day) ==
    IF monthName \in DOMAIN prayerFile
    THEN {prayerFile[monthName][i] : i \in {j \in 1..Len(prayerFile[monthName]) :
                                                prayerFile[monthName][j].date = day}}
    ELSE {}

\* C7: getTimesForDate returns the day record of the month keyed by the date's
\* lowercase month name whose date field equals the day of the month (the first
\* in file order), and null when the data failed to load, the month key is
\* absent or no record of that month matches; in both copies of the module.
C7_PrayerLookup ==
    (prayerPc = "returned" /\ prayerOp # "renderMonthlyTable") =>
        LET matches == MatchingRecords(MONTHS[prayerDate.month + 1], prayerDate.day)
        IN  /\ (prayerTimesData = Null \/ matches = {}) => prayerResult = Null
            /\ (prayerTimesData # Null /\ matches # {}) =>
                  /\ prayerResult # Null
                  /\ prayerResult.value \in matches
                  /\ \A r \in matches : prayerResult.value.row <= r.row
            /\ getTimesForDateCopy(prayerTimesData, prayerDate) = prayerResult

\* the lookup of 15 March in a file whose March holds day 14 and then day 15
C7_Witness ==
    /\ prayerPc = "returned"
    /\ prayerDate = [month |-> 2, day |-> 15]
    /\ "march" \in DOMAIN prayerFile
    /\ Len(prayerFile["march"]) = 2
    /\ prayerFile["march"][1].date = 14
    /\ prayerResult = Json([date |-> 15, row |-> 2])

\* the section's config in the response, Null if the response holds none
SectionConfig(section) ==
    IF evResponse.kind = "json" THEN evResponse.value[section] ELSE Null

\* C8: after loadEvents the notification bar, and likewise the spotlight
\* section, is shown only if its config exists with enabled true; with enabled
\* false or absent it is hidden whatever the other fields of the config are.
C8_ShownOnlyIfEnabled ==
    evPc = "done" =>
        /\ (evDom.bar /\ barView.display # "none") =>
              /\ SectionConfig("notificationBar") # Null
              /\ SectionConfig("notificationBar").value.enabled = "true"
        /\ (evDom.section /\ spotView.display # "none") =>
              /\ SectionConfig("spotlight") # Null
              /\ SectionConfig("spotlight").value.enabled = "true"

\* both sections are there, the document enables neither but gives every
\* other field, and both are hidden
C8_Witness ==
    /\ evPc = "done"
    /\ evDom.bar /\ evDom.section
    /\ SectionConfig("notificationBar")
          = Json([enabled |-> "false", linkUrl |-> "url", linkText |-> "onedash"])
    /\ SectionConfig("spotlight") = Json([enabled |-> "absent", given |-> SpotFields])
    /\ barView.display = "none"
    /\ spotView.display = "none"

\* C9: if the fetch of data/events.json is rejected, is not OK or does not
\* parse, both sections end hidden and no content field has been written.
C9_FailureHidesBoth ==
    (evPc = "done" /\ evResponse \in FailedResponses) =>
        /\ evDom.bar => barView.display = "none"
        /\ evDom.section => spotView.display = "none"
        /\ barView.href = "markup" /\ barView.text = "markup"
        /\ spotView.written = {} /\ spotView.posterAlt = "markup"

\* the document did not parse on a page that holds both sections
C9_Witness ==
    /\ evPc = "done"
    /\ evResponse = [kind |-> "badJson"]
    /\ evDom.bar /\ evDom.section
    /\ barView.display = "none"
    /\ spotView.display = "none"

\* C11: after a manual navigation (button, dot, swipe beyond the threshold,
\* arrow key in the viewport) every armed timer was set at or after that
\* navigation, so the timer armed before it is cancelled, and an automatic
\* advance comes no sooner than a full autoPlayDelay after it.
C11_ManualNavResetsTimer ==
    sinceNav # -1 =>
        /\ \A id \in armed : timerAge[id] <= sinceNav
        /\ lastEvent = "timer" => sinceNav >= autoPlayDelay

\* the timer advances the slide a full delay after a click on a dot
C11_Witness ==
    /\ lastEvent = "timer"
    /\ sinceNav = autoPlayDelay
    /\ nextRun = -1
    /\ dotCount > 0

C20_SingleTimer ==
    /\ Cardinality(armed) <= 1
    /\ armed \subseteq {autoPlayInterval}

\* autoplay was restarted by an arrow key and one timer, a new one, is armed
C20_Witness ==
    /\ lastEvent = "keydown"
    /\ lastNav = "next"
    /\ autoPlayInterval # 1
    /\ armed = {autoPlayInterval}

\* C12: the menu's open state flips on a click of the toggle button, is closed
\* after a click outside both the menu and the toggle, is closed after a click
\* of a link of the menu, and is unchanged by a click inside the menu that is
\* not on a link.
C12_NavigationToggle ==
    (menuWired /\ menuTarget.kind # "none") =>
        /\ menuTarget.kind = "toggle" => navActive = ~menuBefore
        /\ menuTarget.kind \in {"outside", "playBtn"} => ~navActive
        /\ menuTarget.kind = "navLink" => ~navActive
        /\ menuTarget.kind = "navOther" => navActive = menuBefore

\* init has run renderYouTubeSection past its two early returns
GridRendered == ytPc \in {"done", "failed"} /\ ytDom.section /\ ytDom.grid

\* C13: whenever the video panel has rendered, the grid holds one card per video
\* of the list or, for an empty list, the 'Unable to load videos' message, and
\* in both cases the section has been shown.
C13_GridContentVisible ==
    GridRendered =>
        /\ IF Len(videos) = 0
           THEN ytView.gridContent = "unable"
           ELSE ytView.gridContent = "cards" /\ ytView.gridCards = videos
        /\ ytView.sectionDisplay = "block"

\* data/spotlight.json names a video and is enabled
HasSpotlight ==
    /\ spotlightCfg # Null
    /\ spotlightCfg.enabled
    /\ spotlightCfg.videoId # -1

\* C14: a revealed carousel slide holds the thumbnail and title of the
\* spotlighted video if the spotlight is enabled and names a video, else of the
\* first video of the list; with neither the slide is never revealed.
C14_SlideRevealedOnlyFilled ==
    /\ ytView.slideDisplay # "none" =>
          /\ ytView.slideThumb # NoVideo
          /\ ytView.slideTitle = ytView.slideThumb.title
          /\ IF HasSpotlight
             THEN /\ ytView.slideThumb.videoId = spotlightCfg.videoId
                  /\ ytView.slideThumb.thumbnail = "maxresdefault"
             ELSE /\ Len(videos) > 0
                  /\ ytView.slideThumb = videos[1]
    /\ (~HasSpotlight /\ Len(videos) = 0) => ytView.slideDisplay = "none"

\* the slide is revealed with the latest upload while a spotlight video is
\* configured but disabled
C14_Witness ==
    /\ ytView.slideDisplay = ""
    /\ spotlightCfg # Null
    /\ ~spotlightCfg.enabled
    /\ Len(videos) = MaxReturned
    /\ ytView.slideThumb = videos[1]

C17_MissingTargetIsSilent ==
    /\ ytPc # "failed"
    /\ ~ytView.threw

\* the timetable holds no record for the date asked for: the load failed, the
\* month is missing or no record of the month has the day
NoDayData ==
    prayerTimesData = Null \/ MatchingRecords(MONTHS[prayerDate.month + 1], prayerDate.day) = {}

\* the timetable holds no rows for the month asked for: another year than
\* 2025, the load failed, the month is missing or empty
NoMonthData ==
    \/ prayerTable.year # 2025
    \/ prayerTimesData = Null
    \/ MONTHS[prayerTable.month] \notin DOMAIN prayerFile
    \/ prayerFile[MONTHS[prayerTable.month]] = <<>>

\* C16: when no prayer data is available for the date or month asked for,
\* updateDisplay and renderMonthlyTable each leave the 'could not load' message
\* in the page and write no prayer time.
C16_MissingDataShowsMessage ==
    /\ (prayerOp = "updateDisplay" /\ prayerPc = "returned" /\ NoDayData) =>
          /\ prayerView.container = "couldNotLoad"
          /\ prayerView.times = Null
    /\ (prayerOp = "renderMonthlyTable" /\ prayerPc = "returned" /\ prayerPage.container
            /\ NoMonthData) =>
          /\ prayerView.container = "couldNotLoad"
          /\ prayerView.table = <<>>

C24_ViewMatchesIndex ==
    nextRun # 0 =>
        /\ currentSlide \in 0..(slideCount - 1)
        /\ {i \in DOMAIN slideActive : slideActive[i]} = {currentSlide}
        /\ \A i \in DOMAIN dotActive : dotActive[i] <=> i = currentSlide

\* prevSlide from the first slide of a carousel with more dots than slides
C24_Witness ==
    /\ lastNav = "prev"
    /\ lastFrom = 0
    /\ slideCount >= 2
    /\ dotCount > slideCount
    /\ slideActive[slideCount - 1]
    /\ dotActive[slideCount - 1]

\* C28: whenever the pointer is not over the track and no touch is in
\* progress, an autoplay timer is armed; and in a run in which, from some point
\* on, the visitor does nothing more and neither hovers nor touches, every
\* slide index 0..N-1 is the current index again and again.
C28_AutoplayLiveness ==
    /\ []((~hovering /\ ~touching) => armed # {})
    /\ (<>[][TimerTick \/ Elapse]_vars /\ <>[](~hovering /\ ~touching)) =>
          \A i \in 0..(MaxSlides - 1) : []<>(i >= slideCount \/ currentSlide = i)

\* the timer alone has taken the largest carousel through a full cycle
C28_Witness ==
    /\ slideCount = MaxSlides
    /\ sinceNav = -1
    /\ lastEvent = "timer"
    /\ nextRun = slideCount
    /\ ~hovering
    /\ ~touching
    /\ armed # {}

\* C27: after each submit a field carries the error marker if and only if it
\* failed a check in that submit (a required field that is empty after
\* trimming, or an email field whose non-empty value does not match the
\* pattern); after a submit in which every check passes no field is marked.
C27_MarkersTrackLastSubmit ==
    submitState = "submitted" =>
        \A f \in 1..fieldCount :
            fieldError[f] <=> \/ fieldRequired[f] /\ FailsRequired(f)
                              \/ fieldIsEmail[f] /\ FailsEmail(f)

\* C25: the cache only ever holds a list obtained from a successful channel and
\* playlist fetch: when fetchLatestVideos fails and resolves to the empty list,
\* init leaves the cache entry as it was, so no record written since the cache
\* was read by this page load is in the store.
C25_FailedFetchLeavesCache ==
    ytLog.fetchFailed =>
        ~(storage.kind = "json" /\ storage.value.timestamp >= ytLog.readAt)

\* C21: in every run of init the spotlight config load completes before the
\* live check starts, and the live check completes before the cache is read
\* (once); on a cache hit no channel or playlist request is issued and the cache
\* is not rewritten; on a miss the channel request precedes the playlist
\* request, and the cache is written once, after the fetch has resolved, with
\* the fetched list.
C21_LoadSequence ==
    /\ ytPc = "spotlight" => ytLog.live = 0
    /\ ytPc \in {"spotlight", "live"} => ytLog.reads = 0
    /\ ytLog.reads <= 1
    /\ ytLog.reads = 1 => ytLog.live = 1
    /\ cached # Null =>
          ytLog.reads = 1 /\ ytLog.channel = 0 /\ ytLog.playlist = 0 /\ ytLog.writes = 0
    /\ ytLog.channel <= 1 /\ ytLog.playlist <= ytLog.channel
    /\ ytLog.channel = 1 => ytLog.reads = 1 /\ cached = Null
    /\ ytPc \in {"channel", "playlist"} => ytLog.channel = 1 /\ ytLog.writes = 0
    /\ ytPc = "playlist" => ytLog.playlist = 1
    /\ (ytPc \in {"done", "failed"} /\ ytLog.reads = 1 /\ cached = Null) =>
          /\ ytLog.channel = 1
          /\ ytLog.writes = 1
          /\ (storage.kind = "json" /\ storage.value.timestamp >= ytLog.readAt) =>
                storage.value.videos = videos

\* a load that missed the cache, made both requests and stored a non-empty list
C21_Witness ==
    /\ ytPc = "done"
    /\ cached = Null
    /\ ytLog.reads = 1 /\ ytLog.channel = 1 /\ ytLog.playlist = 1 /\ ytLog.writes = 1
    /\ storage.kind = "json" /\ storage.value.timestamp = clock
    /\ storage.value.videos = videos
    /\ Len(videos) > 0

\* C23: running a render operation of the video panel a second time with the
\* same input leaves the view as the first run left it, the listeners on each
\* click target included (one lightbox opened per click).
C23_RenderTwiceAsOnce ==
    ytPc = "done" =>
        /\ renderYouTubeSection(ytView, ytDom, videos, liveStream) = ytView
        /\ populateCarouselSlide(ytView, ytDom, videos, spotlightCfg) = ytView

\* C22: getHijriDate returns '?' for all three fields if the calendar failed to
\* load; else, if today has reached or passed nextMonth's start date, nextMonth's
\* month and year with day = (whole calendar days since that start date) + 1;
\* otherwise currentMonth's month and year with day = (whole calendar days
\* since currentMonth's start date) + 1.
C22_HijriDayCountsCalendarDays ==
    hijriDate # Null =>
        IF hijriCalendar = Null THEN hijriDate = UnknownDate
        ELSE LET month == IF hijriNow.day >= hijriCalendar.nextMonth.gregorianStartDate
                          THEN hijriCalendar.nextMonth
                          ELSE hijriCalendar.currentMonth
             IN  hijriDate = [day |-> hijriNow.day - month.gregorianStartDate + 1,
                              month |-> month.hijriMonth,
                              year |-> month.hijriYear]

\* C26: for any interleaving of calls to loadPrayerTimesData, once a fetch has
\* succeeded at most one request for the timetable has been issued (requests
\* that failed apart), and every caller that receives data receives the same
\* object.
C26_FetchedOnce ==
    /\ loadLog.parsed >= 1 => loadLog.requests - loadLog.failed <= 1
    /\ \A c1 \in Callers, c2 \in Callers :
          (loadReturned[c1] > 0 /\ loadReturned[c2] > 0) => loadReturned[c1] = loadReturned[c2]

=============================================================================
